---- MODULE Spec2Model ----
(***************************************************************************)
(* Model of ftptool (src/ftptool/ftp.py): the FTP wrapper's recursive      *)
(* directory creation (FTP.makedirs / FTP.get_remaining_directory), the    *)
(* lazy remote tree walk (FTP.walk / FTP.dir / parse_dir_listing), the     *)
(* recursive transfers (FTP.download_directory, FTP.upload_directory) and  *)
(* the listing-line parser on its own (parse_dir_listing).                 *)
(*                                                                         *)
(* A path is a Python str, modelled as a sequence of one-character         *)
(* strings, so that os.path.split / join / dirname and str.rstrip /        *)
(* lstrip are computed the way posixpath computes them.                    *)
(***************************************************************************)
EXTENDS Integers, Sequences, FiniteSets, TLC

(***************************************************************************)
(* Bounds of the model.                                                    *)
(***************************************************************************)
\* deepest makedirs target, in segments
MaxDepth == 3
\* most directories (besides "/") on the server when makedirs is called
MaxExisting == 2

\* segment names used for remote directories
Names == {"a", "b"}

(***************************************************************************)
(* Python str helpers.                                                     *)
(***************************************************************************)
Str(c) == <<c>>

Empty == <<>>

Root == <<"/">>

\* s.startswith('/')
StartsWithSlash(s) == Len(s) > 0 /\ s[1] = "/"

\* s.endswith('/')
EndsWithSlash(s) == Len(s) > 0 /\ s[Len(s)] = "/"

\* s == '/' * len(s)
AllSlash(s) == \A i \in 1..Len(s) : s[i] = "/"

\* s.rfind('/') + 1 : the length of the prefix that ends in the last slash
RFindPlus1(s) ==
    IF \E i \in 1..Len(s) : s[i] = "/"
    THEN CHOOSE i \in 1..Len(s) : s[i] = "/" /\ \A j \in (i+1)..Len(s) : s[j] # "/"
    ELSE 0

RECURSIVE RStripSlash(_)
\* s.rstrip('/')
RStripSlash(s) ==
    IF EndsWithSlash(s) THEN RStripSlash(SubSeq(s, 1, Len(s) - 1)) ELSE s

RECURSIVE LStripSlash(_)
\* s.lstrip('/')
LStripSlash(s) ==
    IF StartsWithSlash(s) THEN LStripSlash(Tail(s)) ELSE s

\* posixpath.split(p) -> (head, tail)
split(p) ==
    LET i    == RFindPlus1(p)
        head == SubSeq(p, 1, i)
        tail == SubSeq(p, i + 1, Len(p))
    IN  <<IF head # Empty /\ ~AllSlash(head) THEN RStripSlash(head) ELSE head, tail>>

\* posixpath.dirname(p)
dirname(p) == split(p)[1]

\* posixpath.join(a, b)
join(a, b) ==
    IF StartsWithSlash(b) THEN b
    ELSE IF a = Empty \/ EndsWithSlash(a) THEN a \o b
    ELSE a \o Root \o b

(***************************************************************************)
(* The remote server's view of a path: repeated and trailing slashes do    *)
(* not matter (CWD /a/ and CWD /a name the same directory).                *)
(***************************************************************************)
RECURSIVE Squeeze(_)
Squeeze(s) ==
    IF Len(s) < 2 THEN s
    ELSE IF s[1] = "/" /\ s[2] = "/" THEN Squeeze(Tail(s))
    ELSE <<s[1]>> \o Squeeze(Tail(s))

Norm(s) ==
    LET q == Squeeze(s)
    IN  IF AllSlash(q) THEN q ELSE RStripSlash(q)

\* the absolute path of a sequence of segment names
RECURSIVE PathOf(_)
PathOf(segs) ==
    IF segs = <<>> THEN Root
    ELSE join(PathOf(SubSeq(segs, 1, Len(segs) - 1)), Str(segs[Len(segs)]))

SegsUpTo(n) == UNION {[1..k -> Names] : k \in 0..n}

PathsUpTo(n) == {PathOf(s) : s \in SegsUpTo(n)}

RECURSIVE TreesUpTo(_)
\* the sets of at most n directories besides "/" in which every directory
\* has its parent
TreesUpTo(n) ==
    IF n = 0 THEN {{Root}}
    ELSE TreesUpTo(n - 1) \cup
         UNION {{S \cup {join(d, Str(x))} : d \in S, x \in Names} :
                    S \in TreesUpTo(n - 1)}

(***************************************************************************)
(* State of FTP.makedirs and of the server it talks to.                    *)
(***************************************************************************)
VARIABLES
    dirs,       \* the server's directories (normalised absolute paths)
    cwd,        \* the session's current directory on the server
    pc,         \* position of the makedirs call
    target,     \* makedirs' argument
    saved,      \* get_remaining_directory's local current_directory
    rarg,       \* argument of the innermost recurse() frame
    rstack,     \* `trailing` of the recurse() frames waiting for their callee
    name,       \* value returned by the recurse() frame that last returned
    remaining,  \* makedirs' local `remaining`
    directory,  \* makedirs' local `directory`
    idx,        \* position of the running for-loop in `remaining`
    attempts,   \* the arguments of the mkd commands sent by this call, in order
    calls,      \* number of makedirs calls that have returned
    raised,     \* an error reached makedirs' caller
    dirs0,      \* the server's directories when the running call was made
    cwd0,       \* the current directory when the running call was made
    dirs1,      \* the server's directories when the first call returned
    cwd1,       \* the current directory when the first call returned
    moved,      \* the probing of the running call changed the current directory
    grew        \* the first call created a directory

mkVars == <<dirs, cwd, pc, target, saved, rarg, rstack, name, remaining,
            directory, idx, attempts, calls, raised, dirs0, cwd0, dirs1, cwd1,
            moved, grew>>

(***************************************************************************)
(* State of FTP.walk, of the remote tree it walks and of the local file    *)
(* system that os.path.islink looks at.                                    *)
(***************************************************************************)
VARIABLES
    tree,        \* the remote directories (normalised absolute paths)
    rfiles,      \* the remote files: path -> content
    special,     \* directory -> "ok", "refused" (LIST is refused), "bad" (its
                 \* listing has a line of unknown type), "pipe" (it holds a fifo),
                 \* "link" (it holds a symbolic link to a directory, listed
                 \* as `s -> /`) or "barelink" (the same, listed as `s`)
    llinks,      \* the local paths that are symbolic links
    wroot,       \* walk's argument `directory` of the outermost call
    topdown,     \* walk's argument
    onerror,     \* walk was given an onerror callback
    followlinks, \* walk's argument
    consumer,    \* who iterates the generator: "caller", "download_directory"
                 \* or, when no walk is made, "nobody"
    wpc,         \* "idle", "running", "yielded" (the consumer has the tuple), "done"
    stack,       \* the frames of the nested walk generators, outermost first
    yielded,     \* the tuples the outermost generator has yielded, in order
    errors,      \* the arguments of the onerror calls, in order
    wraised,     \* the error that reached the consumer of the generator, or ""
    defaults     \* the default lists of parse_dir_listing, shared by all calls

walkVars == <<tree, rfiles, special, llinks, wroot, topdown, onerror,
              followlinks, consumer, wpc, stack, yielded, errors, wraised, defaults>>

(***************************************************************************)
(* State of FTP.download_directory and of the local file system.           *)
(***************************************************************************)
VARIABLES
    automkdir,        \* download_directory's argument
    ldirs,            \* the local directories
    lfiles,           \* the local files: path -> content
    dpc,              \* position of the download_directory call
    source_directory, \* the tuple the loop body works on
    sdirs,
    sfiles,
    target_directory, \* download_directory's local
    k,                \* position of the running inner for-loop
    draised,          \* the error that reached download_directory's caller, or ""
    ldirs0            \* the local directories when download_directory was called

dlVars == <<automkdir, ldirs, lfiles, dpc, source_directory, sdirs, sfiles,
            target_directory, k, draised, ldirs0>>

(***************************************************************************)
(* State of FTP.upload_directory: the local tree that is uploaded and the  *)
(* files of the server (its directories are `dirs`, as for makedirs).      *)
(***************************************************************************)
VARIABLES
    utree,      \* the local directories
    utree0,     \* the local directories when upload_directory was called
    ufiles,     \* the local files: path -> content
    rstored,    \* the server's files: path -> content
    uautomkdir, \* upload_directory's argument automkdir
    upc,        \* position of the upload_directory call ("none": no call is made)
    pending,    \* the tuples os.walk(local_directory) has still to yield
    usource,    \* the tuple the loop body works on: source_directory,
    unamesd,    \*   dirs
    unamesf,    \*   and files
    utarget,    \* upload_directory's local target_directory
    uk,         \* position of the running inner for-loop
    uraised,    \* the error that reached upload_directory's caller, or ""
    sent,       \* the MKD and STOR commands sent to the server, in order
    visited     \* the source directories the for-loop has taken, in order

upVars == <<utree, utree0, ufiles, rstored, uautomkdir, upc, pending, usource, unamesd,
            unamesf, utarget, uk, uraised, sent, visited>>

(***************************************************************************)
(* The remote files whose transfer (RETR or STOR) the server fails.        *)
(***************************************************************************)
VARIABLES faulty

(***************************************************************************)
(* State of a single call of parse_dir_listing.                            *)
(***************************************************************************)
VARIABLES
    pline,      \* the argument `line`: the fields line.split() gives
    requested,  \* the names of the lists the caller passes
    lists,      \* the six lists: the caller's where requested, else the
                \* function's default list
    lists0,     \* the six lists before the call
    perror,     \* the error the call raised, or ""
    ppc         \* "idle" or "done"

parseVars == <<pline, requested, lists, lists0, perror, ppc>>

\* the directory the server takes a path for: a relative path starts at the
\* current directory, and ftplib sends CWD . for the empty path
Resolve(p) == Norm(IF StartsWithSlash(p) THEN p ELSE join(cwd, p))

\* ftplib.FTP.cwd succeeds on an existing directory
CwdOk(p) == Resolve(p) \in dirs

\* ftplib.FTP.mkd succeeds when the parent exists and the directory does not
MkdOk(p) == Resolve(p) \notin dirs /\ dirname(Resolve(p)) \in dirs

\* the arguments given to makedirs: absolute paths, the same with a trailing
\* slash, and paths relative to the current directory
Targets ==
    LET abs == PathsUpTo(MaxDepth) \ {Root}
    IN  abs \cup {q \o Root : q \in abs} \cup {Tail(q) : q \in abs}

MkInit ==
    /\ target \in Targets
    /\ dirs \in {S \in TreesUpTo(MaxExisting) : S \subseteq PathsUpTo(MaxDepth)}
    /\ cwd \in dirs
    /\ pc = "idle"
    /\ saved = Empty
    /\ rarg = Empty
    /\ rstack = <<>>
    /\ name = Empty
    /\ remaining = <<>>
    /\ directory = Empty
    /\ idx = 0
    /\ attempts = <<>>
    /\ calls = 0
    /\ raised = FALSE
    /\ dirs0 = dirs
    /\ cwd0 = cwd
    /\ dirs1 = {}
    /\ cwd1 = Empty
    /\ moved = FALSE
    /\ grew = FALSE

\* makedirs(directory) is called; get_remaining_directory reads the current
\* directory and calls recurse(directory)
makedirs ==
    /\ pc = "idle"
    /\ calls < 2
    /\ ~raised
    /\ pc' = "recurse"
    /\ directory' = target
    /\ saved' = cwd
    /\ cwd0' = cwd
    /\ rarg' = target
    /\ rstack' = <<>>
    /\ name' = Empty
    /\ remaining' = <<>>
    /\ idx' = 0
    /\ attempts' = <<>>
    /\ moved' = FALSE
    /\ dirs0' = dirs
    /\ UNCHANGED <<dirs, cwd, target, calls, raised, dirs1, cwd1, grew>>
    /\ UNCHANGED <<walkVars, dlVars, upVars, parseVars, faulty>>

\* recurse: self.current_directory = directory succeeds; return ''
recurse_entered ==
    /\ pc = "recurse"
    /\ CwdOk(rarg)
    /\ cwd' = Resolve(rarg)
    /\ moved' = (moved \/ Resolve(rarg) # cwd0)
    /\ name' = Empty
    /\ pc' = "unwind"
    /\ UNCHANGED <<dirs, target, saved, rarg, rstack, remaining, directory, idx,
                   attempts, calls, raised, dirs0, cwd0, dirs1, cwd1, grew>>
    /\ UNCHANGED <<walkVars, dlVars, upVars, parseVars, faulty>>

\* recurse: the cwd raises ftplib.Error; split the path and recurse on its head
recurse_failed ==
    /\ pc = "recurse"
    /\ ~CwdOk(rarg)
    /\ rstack' = Append(rstack, split(rarg)[2])
    /\ rarg' = split(rarg)[1]
    /\ UNCHANGED <<dirs, cwd, pc, target, saved, name, remaining, directory, idx,
                   attempts, calls, raised, dirs0, cwd0, dirs1, cwd1, moved, grew>>
    /\ UNCHANGED <<walkVars, dlVars, upVars, parseVars, faulty>>

\* recurse returning `trailing` alone, without what its callee returned
recurse_return_trailing ==
    /\ pc = "unwind"
    /\ rstack # <<>>
    /\ name' = RStripSlash(rstack[Len(rstack)])
    /\ rstack' = SubSeq(rstack, 1, Len(rstack) - 1)
    /\ UNCHANGED <<dirs, cwd, pc, target, saved, rarg, remaining, directory, idx,
                   attempts, calls, raised, dirs0, cwd0, dirs1, cwd1, moved, grew>>
    /\ UNCHANGED <<walkVars, dlVars, upVars, parseVars, faulty>>

\* recurse: return os.path.join(name, trailing).rstrip('/') to the caller frame
recurse_return ==
    /\ pc = "unwind"
    /\ rstack # <<>>
    /\ name' = RStripSlash(join(name, rstack[Len(rstack)]))
    /\ rstack' = SubSeq(rstack, 1, Len(rstack) - 1)
    /\ UNCHANGED <<dirs, cwd, pc, target, saved, rarg, remaining, directory, idx,
                   attempts, calls, raised, dirs0, cwd0, dirs1, cwd1, moved, grew>>
    /\ UNCHANGED <<walkVars, dlVars, upVars, parseVars, faulty>>

\* get_remaining_directory returning without the line that restores the
\* current directory
get_remaining_directory_unrestored ==
    /\ pc = "unwind"
    /\ rstack = <<>>
    /\ remaining' = split(name)
    /\ idx' = 1
    /\ pc' = "ascend"
    /\ UNCHANGED <<dirs, cwd, target, saved, rarg, rstack, name, directory,
                   attempts, calls, raised, dirs0, cwd0, dirs1, cwd1, moved, grew>>
    /\ UNCHANGED <<walkVars, dlVars, upVars, parseVars, faulty>>

\* get_remaining_directory restores the current directory and returns;
\* makedirs splits the result into the tuple `remaining`
get_remaining_directory ==
    /\ pc = "unwind"
    /\ rstack = <<>>
    /\ cwd' = Norm(saved)
    /\ remaining' = split(name)
    /\ idx' = 1
    /\ pc' = IF split(name) # <<>> THEN "ascend" ELSE "return"
    /\ UNCHANGED <<dirs, target, saved, rarg, rstack, name, directory, attempts,
                   calls, raised, dirs0, cwd0, dirs1, cwd1, moved, grew>>
    /\ UNCHANGED <<walkVars, dlVars, upVars, parseVars, faulty>>

\* first loop: directory = os.path.dirname(directory), once per element
ascend ==
    /\ pc = "ascend"
    /\ idx <= Len(remaining)
    /\ directory' = dirname(directory)
    /\ idx' = idx + 1
    /\ UNCHANGED <<dirs, cwd, pc, target, saved, rarg, rstack, name, remaining,
                   attempts, calls, raised, dirs0, cwd0, dirs1, cwd1, moved, grew>>
    /\ UNCHANGED <<walkVars, dlVars, upVars, parseVars, faulty>>

ascended ==
    /\ pc = "ascend"
    /\ idx > Len(remaining)
    /\ idx' = 1
    /\ pc' = "create"
    /\ UNCHANGED <<dirs, cwd, target, saved, rarg, rstack, name, remaining,
                   directory, attempts, calls, raised, dirs0, cwd0, dirs1, cwd1,
                   moved, grew>>
    /\ UNCHANGED <<walkVars, dlVars, upVars, parseVars, faulty>>

\* second loop: directory = os.path.join(directory, name); self.mkdir(directory)
mkdir_created ==
    /\ pc = "create"
    /\ idx <= Len(remaining)
    /\ LET d == join(directory, remaining[idx])
       IN  /\ MkdOk(d)
           /\ directory' = d
           /\ attempts' = Append(attempts, d)
           /\ dirs' = dirs \cup {Resolve(d)}
    /\ idx' = idx + 1
    /\ UNCHANGED <<cwd, pc, target, saved, rarg, rstack, name, remaining, calls,
                   raised, dirs0, cwd0, dirs1, cwd1, moved, grew>>
    /\ UNCHANGED <<walkVars, dlVars, upVars, parseVars, faulty>>

\* the mkd raises ftplib.Error and no handler passes it over
mkdir_refused_raising ==
    /\ pc = "create"
    /\ idx <= Len(remaining)
    /\ LET d == join(directory, remaining[idx])
       IN  /\ ~MkdOk(d)
           /\ directory' = d
           /\ attempts' = Append(attempts, d)
    /\ raised' = TRUE
    /\ pc' = "idle"
    /\ UNCHANGED <<dirs, cwd, target, saved, rarg, rstack, name, remaining, idx,
                   calls, dirs0, cwd0, dirs1, cwd1, moved, grew>>
    /\ UNCHANGED <<walkVars, dlVars, upVars, parseVars, faulty>>

\* second loop: the mkd raises ftplib.Error, which is passed over
mkdir_refused ==
    /\ pc = "create"
    /\ idx <= Len(remaining)
    /\ LET d == join(directory, remaining[idx])
       IN  /\ ~MkdOk(d)
           /\ directory' = d
           /\ attempts' = Append(attempts, d)
    /\ idx' = idx + 1
    /\ UNCHANGED <<dirs, cwd, pc, target, saved, rarg, rstack, name, remaining,
                   calls, raised, dirs0, cwd0, dirs1, cwd1, moved, grew>>
    /\ UNCHANGED <<walkVars, dlVars, upVars, parseVars, faulty>>

created ==
    /\ pc = "create"
    /\ idx > Len(remaining)
    /\ pc' = "return"
    /\ UNCHANGED <<dirs, cwd, target, saved, rarg, rstack, name, remaining,
                   directory, idx, attempts, calls, raised, dirs0, cwd0, dirs1,
                   cwd1, moved, grew>>
    /\ UNCHANGED <<walkVars, dlVars, upVars, parseVars, faulty>>

\* makedirs returns to its caller
makedirs_return ==
    /\ pc = "return"
    /\ pc' = "idle"
    /\ calls' = calls + 1
    /\ dirs1' = IF calls = 0 THEN dirs ELSE dirs1
    /\ cwd1' = IF calls = 0 THEN cwd ELSE cwd1
    /\ grew' = IF calls = 0 THEN dirs # dirs0 ELSE grew
    /\ UNCHANGED <<dirs, cwd, target, saved, rarg, rstack, name, remaining,
                   directory, idx, attempts, raised, dirs0, cwd0, moved>>
    /\ UNCHANGED <<walkVars, dlVars, upVars, parseVars, faulty>>

MkNext ==
    \/ makedirs
    \/ recurse_entered
    \/ recurse_failed
    \/ recurse_return
    \/ get_remaining_directory
    \/ ascend
    \/ ascended
    \/ mkdir_created
    \/ mkdir_refused
    \/ created
    \/ makedirs_return

(***************************************************************************)
(* Directory listings and parse_dir_listing.                               *)
(*                                                                         *)
(* A listing line is modelled by the list of its whitespace-separated      *)
(* fields (what line.split() returns), each field a str.                   *)
(***************************************************************************)
\* most directories (besides "/") of the remote tree that is walked
MaxTree == 3

\* the segment names in the order the server lists them
NameSeq == <<"a", "b">>

Field(c) == <<c>>

\* a line of type character c for the entry n, in the 9-field format
Line(c, n) ==
    <<Field(c), Field("1"), Field("u"), Field("g"), Field("0"), Field("Jan"),
      Field("1"), Field("0:00"), n>>

\* the line of the symbolic link n to t, as ls -l prints it: 11 fields
ArrowLine(n, t) ==
    <<Field("l"), Field("1"), Field("u"), Field("g"), Field("0"), Field("Jan"),
      Field("1"), Field("0:00"), n, Field("->"), t>>

NoBuckets == [dirs |-> <<>>, files |-> <<>>, links |-> <<>>, pipes |-> <<>>,
              sockets |-> <<>>, devices |-> <<>>]

\* parse_dir_listing with `if` where the code has `elif`: the final else
\* then belongs to the test for 'c' or 'b' alone
parse_dir_listing_unchained(line, b) ==
    IF Len(line) # 9 THEN [error |-> "ValueError", buckets |-> b]
    ELSE LET mode == line[1]
             n    == line[9]
             b1   == IF mode[1] = "d" THEN [b EXCEPT !.dirs = Append(@, n)] ELSE b
             b2   == IF mode[1] = "-" THEN [b1 EXCEPT !.files = Append(@, n)] ELSE b1
             b3   == IF mode[1] = "l" THEN [b2 EXCEPT !.links = Append(@, n)] ELSE b2
             b4   == IF mode[1] = "p" THEN [b3 EXCEPT !.pipes = Append(@, n)] ELSE b3
             b5   == IF mode[1] = "s" THEN [b4 EXCEPT !.sockets = Append(@, n)] ELSE b4
         IN  IF mode[1] = "c" \/ mode[1] = "b"
                 THEN [error |-> "", buckets |-> [b5 EXCEPT !.devices = Append(@, n)]]
             ELSE [error |-> "ValueError", buckets |-> b5]

\* parse_dir_listing(line, **buckets): the buckets after the call, or the
\* ValueError of the unpacking or of an unrecognized type character
parse_dir_listing(line, b) ==
    IF Len(line) # 9 THEN [error |-> "ValueError", buckets |-> b]
    ELSE LET mode == line[1]
             n    == line[9]
         IN  IF mode[1] = "d"
                 THEN [error |-> "", buckets |-> [b EXCEPT !.dirs = Append(@, n)]]
             ELSE IF mode[1] = "-"
                 THEN [error |-> "", buckets |-> [b EXCEPT !.files = Append(@, n)]]
             ELSE IF mode[1] = "l"
                 THEN [error |-> "", buckets |-> [b EXCEPT !.links = Append(@, n)]]
             ELSE IF mode[1] = "p"
                 THEN [error |-> "", buckets |-> [b EXCEPT !.pipes = Append(@, n)]]
             ELSE IF mode[1] = "s"
                 THEN [error |-> "", buckets |-> [b EXCEPT !.sockets = Append(@, n)]]
             ELSE IF mode[1] = "c" \/ mode[1] = "b"
                 THEN [error |-> "", buckets |-> [b EXCEPT !.devices = Append(@, n)]]
             ELSE [error |-> "ValueError", buckets |-> b]

RECURSIVE ParseLines(_, _)
\* ftplib.FTP.dir(directory, p): p is called on each line in turn, and the
\* first error it raises ends the listing
ParseLines(lines, b) ==
    IF lines = <<>> THEN [error |-> "", buckets |-> b]
    ELSE LET r == parse_dir_listing(Head(lines), b)
         IN  IF r.error # "" THEN r ELSE ParseLines(Tail(lines), r.buckets)

\* the file name used in the remote trees
FileName == <<"f">>

\* the fifo name used in the remote trees
PipeName == <<"p">>

\* the name of the entry whose type character is unknown
BadName == <<"x">>

\* the name of the symbolic link used in the remote trees; it points to "/"
LinkName == <<"s">>

\* the immediate subdirectories of d, in listing order
RECURSIVE ChildLines(_, _)
ChildLines(d, i) ==
    IF i > Len(NameSeq) THEN <<>>
    ELSE (IF join(d, Str(NameSeq[i])) \in tree
             THEN <<Line("d", Str(NameSeq[i]))>> ELSE <<>>)
         \o ChildLines(d, i + 1)

\* the lines the server sends for LIST d
Listing(d) ==
    ChildLines(d, 1)
    \o (IF join(d, FileName) \in DOMAIN rfiles THEN <<Line("-", FileName)>> ELSE <<>>)
    \o (IF special[d] = "pipe" THEN <<Line("p", PipeName)>> ELSE <<>>)
    \o (IF special[d] = "bad" THEN <<Line("?", BadName)>> ELSE <<>>)
    \o (IF special[d] = "link" THEN <<ArrowLine(LinkName, Root)>> ELSE <<>>)
    \o (IF special[d] = "barelink" THEN <<Line("l", LinkName)>> ELSE <<>>)

\* d = dict(dirs=[], files=[]); partial(parse_dir_listing, **d): the other
\* lists are the function's default lists
Buckets ==
    [NoBuckets EXCEPT !.links = defaults.links, !.pipes = defaults.pipes,
                      !.sockets = defaults.sockets, !.devices = defaults.devices]

\* FTP.dir(directory): the error raised, or (dirs, files)
dir(d) ==
    IF Norm(d) \notin tree \/ special[Norm(d)] = "refused"
    THEN [error |-> "error_perm", buckets |-> Buckets]
    ELSE ParseLines(Listing(Norm(d)), Buckets)

\* os.path.islink(path), on the local file system
islink(p) == Norm(p) \in llinks

OneOrNone(S) == {{}} \cup {{x} : x \in S}

Content(p) == <<"data of", p>>

\* the remote tree, the local links and no walk yet; a run has at most one
\* irregularity: one special directory or one local link
WalkState ==
    /\ tree \in TreesUpTo(MaxTree)
    /\ \E fd \in {{}, tree} :
          rfiles = [q \in {join(d, FileName) : d \in fd} |-> Content(q)]
    /\ special \in {[d \in tree |-> "ok"]} \cup
                   {[d \in tree |-> IF d = s THEN kind ELSE "ok"] :
                        s \in tree, kind \in {"refused", "bad", "pipe"}}
    /\ llinks \in (IF \A d \in tree : special[d] = "ok"
                   THEN OneOrNone(tree \ {Root}) ELSE {{}})
    /\ wroot \in {Root, PathOf(<<NameSeq[1]>>)} \cap tree
    /\ wpc = "idle"
    /\ stack = <<>>
    /\ yielded = <<>>
    /\ errors = <<>>
    /\ wraised = ""
    /\ defaults = [links |-> <<>>, pipes |-> <<>>, sockets |-> <<>>, devices |-> <<>>]

WalkInit ==
    /\ WalkState
    /\ consumer = "caller"
    /\ topdown \in BOOLEAN
    /\ onerror \in (IF \E d \in tree : special[d] \in {"refused", "bad"}
                    THEN BOOLEAN ELSE {FALSE})
    /\ followlinks \in (IF llinks # {} THEN BOOLEAN ELSE {FALSE})

\* a topdown walk by the caller of a tree in which one directory holds a
\* symbolic link to a directory
LinkInit ==
    /\ tree \in TreesUpTo(MaxTree)
    /\ \E fd \in {{}, tree} :
          rfiles = [q \in {join(d, FileName) : d \in fd} |-> Content(q)]
    /\ special \in {[d \in tree |-> IF d = s THEN kind ELSE "ok"] :
                        s \in tree, kind \in {"link", "barelink"}}
    /\ llinks = {}
    /\ wroot \in {Root, PathOf(<<NameSeq[1]>>)} \cap tree
    /\ wpc = "idle"
    /\ stack = <<>>
    /\ yielded = <<>>
    /\ errors = <<>>
    /\ wraised = ""
    /\ defaults = [links |-> <<>>, pipes |-> <<>>, sockets |-> <<>>, devices |-> <<>>]
    /\ consumer = "caller"
    /\ topdown = TRUE
    /\ onerror \in BOOLEAN
    /\ followlinks \in BOOLEAN

Frame(d) == [directory |-> d, d0 |-> <<>>, d1 |-> <<>>, i |-> 1, st |-> "start"]

Top == stack[Len(stack)]

Pop == SubSeq(stack, 1, Len(stack) - 1)

SetTop(f) == [stack EXCEPT ![Len(stack)] = f]

walkFixed == <<tree, rfiles, special, llinks, wroot, topdown, onerror, followlinks,
               consumer>>

\* walk(directory, ...) is called and its generator is started
walk ==
    /\ wpc = "idle"
    /\ consumer = "caller" \/ dpc = "for"
    /\ wpc' = "running"
    /\ stack' = <<Frame(wroot)>>
    /\ UNCHANGED <<walkFixed, yielded, errors, wraised, defaults>>
    /\ UNCHANGED <<mkVars, dlVars, upVars, parseVars, faulty>>

\* d = self.dir(directory) returns
walk_dir ==
    /\ wpc = "running"
    /\ stack # <<>>
    /\ Top.st = "start"
    /\ LET r == dir(Top.directory)
       IN  /\ r.error = ""
           /\ stack' = SetTop([Top EXCEPT !.d0 = r.buckets.dirs,
                                          !.d1 = r.buckets.files,
                                          !.st = IF topdown THEN "yield" ELSE "loop"])
           /\ defaults' = [links |-> r.buckets.links, pipes |-> r.buckets.pipes,
                           sockets |-> r.buckets.sockets, devices |-> r.buckets.devices]
    /\ UNCHANGED <<walkFixed, wpc, yielded, errors, wraised>>
    /\ UNCHANGED <<mkVars, dlVars, upVars, parseVars, faulty>>

\* self.dir(directory) raises and the walk has no handler for the error
walk_dir_raised_uncaught ==
    /\ wpc = "running"
    /\ stack # <<>>
    /\ Top.st = "start"
    /\ LET r == dir(Top.directory)
       IN  /\ r.error # ""
           /\ wraised' = r.error
           /\ defaults' = [links |-> r.buckets.links, pipes |-> r.buckets.pipes,
                           sockets |-> r.buckets.sockets, devices |-> r.buckets.devices]
    /\ stack' = <<>>
    /\ wpc' = "done"
    /\ UNCHANGED <<walkFixed, yielded, errors>>
    /\ UNCHANGED <<mkVars, dlVars, upVars, parseVars, faulty>>

\* self.dir(directory) raises: except Exception, onerror(err) if given, return
walk_dir_raised ==
    /\ wpc = "running"
    /\ stack # <<>>
    /\ Top.st = "start"
    /\ LET r == dir(Top.directory)
       IN  /\ r.error # ""
           /\ errors' = IF onerror
                        THEN Append(errors, <<r.error, Top.directory>>)
                        ELSE errors
           /\ defaults' = [links |-> r.buckets.links, pipes |-> r.buckets.pipes,
                           sockets |-> r.buckets.sockets, devices |-> r.buckets.devices]
    /\ stack' = Pop
    /\ wpc' = IF Len(stack) = 1 THEN "done" ELSE wpc
    /\ UNCHANGED <<walkFixed, yielded, wraised>>
    /\ UNCHANGED <<mkVars, dlVars, upVars, parseVars, faulty>>

\* if topdown: yield directory, d[0], d[1]
walk_yield ==
    /\ wpc = "running"
    /\ stack # <<>>
    /\ Top.st = "yield"
    /\ yielded' = Append(yielded, <<Top.directory, Top.d0, Top.d1>>)
    /\ stack' = SetTop([Top EXCEPT !.st = "loop"])
    /\ wpc' = IF consumer = "caller" THEN "running" ELSE "yielded"
    /\ UNCHANGED <<walkFixed, errors, wraised, defaults>>
    /\ UNCHANGED <<mkVars, dlVars, upVars, parseVars, faulty>>

\* for name in d[0]: the subdirectory is walked by a nested generator
walk_recurse ==
    /\ wpc = "running"
    /\ stack # <<>>
    /\ Top.st = "loop"
    /\ Top.i <= Len(Top.d0)
    /\ LET subdirectory == join(Top.directory, Top.d0[Top.i])
       IN  /\ followlinks \/ ~islink(subdirectory)
           /\ stack' = Append(SetTop([Top EXCEPT !.i = @ + 1]), Frame(subdirectory))
    /\ UNCHANGED <<walkFixed, wpc, yielded, errors, wraised, defaults>>
    /\ UNCHANGED <<mkVars, dlVars, upVars, parseVars, faulty>>

\* for name in d[0]: os.path.islink(subdirectory) holds and followlinks does
\* not, so the subdirectory is passed over
walk_islink ==
    /\ wpc = "running"
    /\ stack # <<>>
    /\ Top.st = "loop"
    /\ Top.i <= Len(Top.d0)
    /\ LET subdirectory == join(Top.directory, Top.d0[Top.i])
       IN  ~(followlinks \/ ~islink(subdirectory))
    /\ stack' = SetTop([Top EXCEPT !.i = @ + 1])
    /\ UNCHANGED <<walkFixed, wpc, yielded, errors, wraised, defaults>>
    /\ UNCHANGED <<mkVars, dlVars, upVars, parseVars, faulty>>

\* the generator yields its tuple once more when the loop over d[0] has ended
walk_return_yielding ==
    /\ wpc = "running"
    /\ stack # <<>>
    /\ Top.st = "loop"
    /\ Top.i > Len(Top.d0)
    /\ topdown
    /\ yielded' = Append(yielded, <<Top.directory, Top.d0, Top.d1>>)
    /\ stack' = Pop
    /\ wpc' = IF Len(stack) = 1 THEN "done" ELSE wpc
    /\ UNCHANGED <<walkFixed, errors, wraised, defaults>>
    /\ UNCHANGED <<mkVars, dlVars, upVars, parseVars, faulty>>

\* the loop over d[0] has ended and topdown holds: the generator returns
walk_return ==
    /\ wpc = "running"
    /\ stack # <<>>
    /\ Top.st = "loop"
    /\ Top.i > Len(Top.d0)
    /\ topdown
    /\ stack' = Pop
    /\ wpc' = IF Len(stack) = 1 THEN "done" ELSE wpc
    /\ UNCHANGED <<walkFixed, yielded, errors, wraised, defaults>>
    /\ UNCHANGED <<mkVars, dlVars, upVars, parseVars, faulty>>

\* if not topdown: yield top, d[0], d[1] -- the name `top` is not defined, so
\* the NameError leaves every nested generator and reaches the consumer
walk_yield_top ==
    /\ wpc = "running"
    /\ stack # <<>>
    /\ Top.st = "loop"
    /\ Top.i > Len(Top.d0)
    /\ ~topdown
    /\ wraised' = "NameError"
    /\ stack' = <<>>
    /\ wpc' = "done"
    /\ UNCHANGED <<walkFixed, yielded, errors, defaults>>
    /\ UNCHANGED <<mkVars, dlVars, upVars, parseVars, faulty>>

WalkNext ==
    \/ walk
    \/ walk_dir
    \/ walk_dir_raised
    \/ walk_yield
    \/ walk_recurse
    \/ walk_islink
    \/ walk_return
    \/ walk_yield_top

(***************************************************************************)
(* FTP.download_directory(server_directory, local_directory, automkdir),   *)
(* with server_directory = wroot and local_directory = LocalRoot.          *)
(***************************************************************************)
LocalRoot == <<"/", "l">>

\* os.path.exists(path), on the local file system
exists(p) == Norm(p) \in ldirs \/ Norm(p) \in DOMAIN lfiles

\* the parent of a local path is a directory: os.mkdir and open(.., 'wb') work
ParentIsDir(p) == dirname(Norm(p)) \in ldirs

\* the path and its ancestors, "/" included
RECURSIVE Prefixes(_)
Prefixes(p) == IF dirname(p) = p THEN {p} ELSE {p} \cup Prefixes(dirname(p))

DlInit ==
    /\ WalkState
    /\ consumer = "download_directory"
    /\ topdown = TRUE
    /\ onerror = FALSE
    /\ followlinks = FALSE
    /\ automkdir \in BOOLEAN
    /\ ldirs \in {{Root}, {Root, LocalRoot},
                  {Root, LocalRoot, join(LocalRoot, Str(NameSeq[1]))}}
    /\ lfiles = <<>>
    /\ dpc = "idle"
    /\ source_directory = Empty
    /\ sdirs = <<>>
    /\ sfiles = <<>>
    /\ target_directory = Empty
    /\ k = 0
    /\ draised = ""
    /\ ldirs0 = ldirs

\* download_directory is called: if automkdir: os.makedirs(local_directory),
\* which raises when the directory exists; then the walk is set up
download_directory ==
    /\ consumer = "download_directory"
    /\ dpc = "idle"
    /\ IF automkdir /\ exists(LocalRoot)
       THEN /\ draised' = "FileExistsError"
            /\ dpc' = "done"
            /\ UNCHANGED ldirs
       ELSE /\ ldirs' = IF automkdir THEN ldirs \cup Prefixes(Norm(LocalRoot)) ELSE ldirs
            /\ dpc' = "for"
            /\ UNCHANGED draised
    /\ UNCHANGED <<automkdir, lfiles, source_directory, sdirs, sfiles,
                   target_directory, k, ldirs0>>
    /\ UNCHANGED <<mkVars, walkVars, upVars, parseVars, faulty>>

\* the for-loop body joining the rest of the source path without lstrip('/')
download_tuple_unstripped ==
    /\ dpc = "for"
    /\ wpc = "yielded"
    /\ LET t == yielded[Len(yielded)]
       IN  /\ source_directory' = t[1]
           /\ sdirs' = t[2]
           /\ sfiles' = t[3]
           /\ target_directory' =
                 join(LocalRoot, SubSeq(t[1], Len(wroot) + 1, Len(t[1])))
    /\ k' = 1
    /\ dpc' = "dirs"
    /\ UNCHANGED <<automkdir, ldirs, lfiles, draised, ldirs0>>
    /\ UNCHANGED <<mkVars, walkVars, upVars, parseVars, faulty>>

\* the for-loop takes the tuple the walk yielded and computes target_directory
download_tuple ==
    /\ dpc = "for"
    /\ wpc = "yielded"
    /\ LET t == yielded[Len(yielded)]
       IN  /\ source_directory' = t[1]
           /\ sdirs' = t[2]
           /\ sfiles' = t[3]
           /\ target_directory' =
                 join(LocalRoot,
                      LStripSlash(SubSeq(t[1], Len(wroot) + 1, Len(t[1]))))
    /\ k' = 1
    /\ dpc' = "dirs"
    /\ UNCHANGED <<automkdir, ldirs, lfiles, draised, ldirs0>>
    /\ UNCHANGED <<mkVars, walkVars, upVars, parseVars, faulty>>

\* for name in dirs: the loop body passing over a missing local directory
\* without os.mkdir(name)
download_mkdir_skipped ==
    /\ dpc = "dirs"
    /\ k <= Len(sdirs)
    /\ LET n == join(target_directory, sdirs[k])
       IN  /\ ~exists(n)
           /\ ParentIsDir(n)
    /\ k' = k + 1
    /\ UNCHANGED <<automkdir, ldirs, lfiles, dpc, source_directory, sdirs, sfiles,
                   target_directory, draised, ldirs0>>
    /\ UNCHANGED <<mkVars, walkVars, upVars, parseVars, faulty>>

\* for name in dirs: the local directory does not exist; os.mkdir(name)
download_mkdir ==
    /\ dpc = "dirs"
    /\ k <= Len(sdirs)
    /\ LET n == join(target_directory, sdirs[k])
       IN  /\ ~exists(n)
           /\ ParentIsDir(n)
           /\ ldirs' = ldirs \cup {Norm(n)}
    /\ k' = k + 1
    /\ UNCHANGED <<automkdir, lfiles, dpc, source_directory, sdirs, sfiles,
                   target_directory, draised, ldirs0>>
    /\ UNCHANGED <<mkVars, walkVars, upVars, parseVars, faulty>>

\* for name in dirs: os.path.exists(name) holds
download_mkdir_exists ==
    /\ dpc = "dirs"
    /\ k <= Len(sdirs)
    /\ exists(join(target_directory, sdirs[k]))
    /\ k' = k + 1
    /\ UNCHANGED <<automkdir, ldirs, lfiles, dpc, source_directory, sdirs, sfiles,
                   target_directory, draised, ldirs0>>
    /\ UNCHANGED <<mkVars, walkVars, upVars, parseVars, faulty>>

\* for name in dirs: os.mkdir(name) raises, the parent directory is missing
download_mkdir_raised ==
    /\ dpc = "dirs"
    /\ k <= Len(sdirs)
    /\ LET n == join(target_directory, sdirs[k])
       IN  ~exists(n) /\ ~ParentIsDir(n)
    /\ draised' = "FileNotFoundError"
    /\ dpc' = "done"
    /\ UNCHANGED <<automkdir, ldirs, lfiles, source_directory, sdirs, sfiles,
                   target_directory, k, ldirs0>>
    /\ UNCHANGED <<mkVars, walkVars, upVars, parseVars, faulty>>

\* the loop over dirs has ended
download_dirs_done ==
    /\ dpc = "dirs"
    /\ k > Len(sdirs)
    /\ k' = 1
    /\ dpc' = "files"
    /\ UNCHANGED <<automkdir, ldirs, lfiles, source_directory, sdirs, sfiles,
                   target_directory, draised, ldirs0>>
    /\ UNCHANGED <<mkVars, walkVars, upVars, parseVars, faulty>>

\* for name in files: get_file_proxy(source_name).filename_download(target_name)
\* opens the local file for writing and retrieves the remote file into it
filename_download ==
    /\ dpc = "files"
    /\ k <= Len(sfiles)
    /\ LET target_name == join(target_directory, sfiles[k])
           source_name == join(source_directory, sfiles[k])
           filename    == join(cwd, source_name)
       IN  /\ ParentIsDir(target_name)
           /\ Norm(filename) \in DOMAIN rfiles
           /\ Norm(filename) \notin faulty
           /\ lfiles' = [q \in DOMAIN lfiles \cup {Norm(target_name)} |->
                            IF q = Norm(target_name) THEN rfiles[Norm(filename)]
                            ELSE lfiles[q]]
    /\ k' = k + 1
    /\ UNCHANGED <<automkdir, ldirs, dpc, source_directory, sdirs, sfiles,
                   target_directory, draised, ldirs0>>
    /\ UNCHANGED <<mkVars, walkVars, upVars, parseVars, faulty>>

\* for name in files: open(target_name, 'wb') raises, the directory is missing
filename_download_raised ==
    /\ dpc = "files"
    /\ k <= Len(sfiles)
    /\ ~ParentIsDir(join(target_directory, sfiles[k]))
    /\ draised' = "FileNotFoundError"
    /\ dpc' = "done"
    /\ UNCHANGED <<automkdir, ldirs, lfiles, source_directory, sdirs, sfiles,
                   target_directory, k, ldirs0>>
    /\ UNCHANGED <<mkVars, walkVars, upVars, parseVars, faulty>>

\* the failing RETR passed over, the way a refused mkd is
filename_download_failed_passed ==
    /\ dpc = "files"
    /\ k <= Len(sfiles)
    /\ LET target_name == join(target_directory, sfiles[k])
           source_name == join(source_directory, sfiles[k])
           filename    == join(cwd, source_name)
       IN  /\ ParentIsDir(target_name)
           /\ Norm(filename) \in faulty
           /\ lfiles' = [q \in DOMAIN lfiles \cup {Norm(target_name)} |->
                            IF q = Norm(target_name) THEN <<>> ELSE lfiles[q]]
    /\ k' = k + 1
    /\ UNCHANGED <<automkdir, ldirs, dpc, source_directory, sdirs, sfiles,
                   target_directory, draised, ldirs0>>
    /\ UNCHANGED <<mkVars, walkVars, upVars, parseVars, faulty>>

\* for name in files: open(target_name, 'wb') makes the local file, the RETR
\* raises, and nothing in download_directory handles the error
filename_download_failed ==
    /\ dpc = "files"
    /\ k <= Len(sfiles)
    /\ LET target_name == join(target_directory, sfiles[k])
           source_name == join(source_directory, sfiles[k])
           filename    == join(cwd, source_name)
       IN  /\ ParentIsDir(target_name)
           /\ Norm(filename) \in faulty
           /\ lfiles' = [q \in DOMAIN lfiles \cup {Norm(target_name)} |->
                            IF q = Norm(target_name) THEN <<>> ELSE lfiles[q]]
    /\ draised' = "error_perm"
    /\ dpc' = "done"
    /\ UNCHANGED <<automkdir, ldirs, source_directory, sdirs, sfiles,
                   target_directory, k, ldirs0>>
    /\ UNCHANGED <<mkVars, walkVars, upVars, parseVars, faulty>>

\* the loop over files has ended: the for-loop asks the walk for the next tuple
download_files_done ==
    /\ dpc = "files"
    /\ k > Len(sfiles)
    /\ wpc = "yielded"
    /\ wpc' = "running"
    /\ dpc' = "for"
    /\ UNCHANGED <<automkdir, ldirs, lfiles, source_directory, sdirs, sfiles,
                   target_directory, k, draised, ldirs0>>
    /\ UNCHANGED <<mkVars, walkFixed, stack, yielded, errors, wraised, defaults,
                   upVars, parseVars, faulty>>

\* the walk is exhausted, or has raised: download_directory returns, or raises
download_return ==
    /\ dpc = "for"
    /\ wpc = "done"
    /\ dpc' = "done"
    /\ draised' = wraised
    /\ UNCHANGED <<automkdir, ldirs, lfiles, source_directory, sdirs, sfiles,
                   target_directory, k, ldirs0>>
    /\ UNCHANGED <<mkVars, walkVars, upVars, parseVars, faulty>>

DlNext ==
    \/ download_directory
    \/ walk
    \/ walk_dir
    \/ walk_dir_raised
    \/ walk_yield
    \/ walk_recurse
    \/ walk_islink
    \/ walk_return
    \/ download_tuple
    \/ download_mkdir
    \/ download_mkdir_exists
    \/ download_mkdir_raised
    \/ download_dirs_done
    \/ filename_download
    \/ filename_download_raised
    \/ download_files_done
    \/ download_return

(***************************************************************************)
(* FTP.upload_directory(local_directory, server_directory, automkdir),     *)
(* with local_directory = LocalRoot and server_directory = ServerRoot.     *)
(***************************************************************************)
ServerRoot == <<"/", "r">>

\* the variables of a makedirs call, which upload_directory leaves alone
mkCall == <<pc, target, saved, rarg, rstack, name, remaining, directory, idx,
            attempts, calls, raised, dirs0, cwd0, dirs1, cwd1, moved, grew>>

\* the names of the subdirectories of top in the local directories T
LocalDirNames(T, top) ==
    SelectSeq([i \in 1..Len(NameSeq) |-> Str(NameSeq[i])],
              LAMBDA n : Norm(join(top, n)) \in T)

\* the names of the files of top among the local files F
LocalFileNames(F, top) ==
    IF Norm(join(top, FileName)) \in F THEN <<FileName>> ELSE <<>>

RECURSIVE OsWalk(_, _, _)
RECURSIVE OsWalkEach(_, _, _, _)
\* os.walk(top): (dirpath, dirnames, filenames) of top and then of each
\* subdirectory in turn; nothing for a directory that cannot be listed
OsWalk(T, F, top) ==
    IF Norm(top) \notin T THEN <<>>
    ELSE <<<<top, LocalDirNames(T, top), LocalFileNames(F, top)>>>>
         \o OsWalkEach(T, F, top, LocalDirNames(T, top))

OsWalkEach(T, F, top, names) ==
    IF names = <<>> THEN <<>>
    ELSE OsWalk(T, F, join(top, Head(names))) \o OsWalkEach(T, F, top, Tail(names))

\* a local tree below LocalRoot for each remote tree shape, or no LocalRoot
LocalTrees ==
    {{Root}} \cup
    {{Root} \cup {Norm(LocalRoot \o d) : d \in S} : S \in TreesUpTo(MaxTree)}

UpInit ==
    /\ utree \in LocalTrees
    /\ utree0 = utree
    /\ \E fd \in {{}, utree \ {Root}} :
          ufiles = [q \in {join(d, FileName) : d \in fd} |-> Content(q)]
    /\ dirs \in {{Root}, {Root, ServerRoot},
                 {Root, ServerRoot, join(ServerRoot, Str(NameSeq[1]))}}
    /\ cwd \in {Root, ServerRoot} \cap dirs
    /\ rstored = <<>>
    /\ uautomkdir \in BOOLEAN
    /\ faulty \in OneOrNone({Norm(ServerRoot \o Root \o
                                  SubSeq(q, Len(LocalRoot) + 1, Len(q))) :
                                 q \in DOMAIN ufiles})
    /\ upc = "idle"
    /\ pending = <<>>
    /\ usource = Empty
    /\ unamesd = <<>>
    /\ unamesf = <<>>
    /\ utarget = Empty
    /\ uk = 0
    /\ uraised = ""
    /\ sent = <<>>
    /\ visited = <<>>
    /\ target = Root
    /\ pc = "idle"
    /\ saved = Empty
    /\ rarg = Empty
    /\ rstack = <<>>
    /\ name = Empty
    /\ remaining = <<>>
    /\ directory = Empty
    /\ idx = 0
    /\ attempts = <<>>
    /\ calls = 0
    /\ raised = FALSE
    /\ dirs0 = dirs
    /\ cwd0 = cwd
    /\ dirs1 = {}
    /\ cwd1 = Empty
    /\ moved = FALSE
    /\ grew = FALSE

\* upload_directory is called: if automkdir: os.makedirs(local_directory),
\* which raises when the directory exists; then os.walk(local_directory)
upload_directory ==
    /\ upc = "idle"
    /\ IF uautomkdir /\ Norm(LocalRoot) \in utree
       THEN /\ uraised' = "FileExistsError"
            /\ upc' = "done"
            /\ UNCHANGED <<utree, pending>>
       ELSE /\ utree' = IF uautomkdir THEN utree \cup Prefixes(Norm(LocalRoot))
                        ELSE utree
            /\ pending' = OsWalk(utree', DOMAIN ufiles, LocalRoot)
            /\ upc' = "for"
            /\ UNCHANGED uraised
    /\ UNCHANGED <<utree0, ufiles, rstored, uautomkdir, usource, unamesd, unamesf,
                   utarget, uk, sent, visited>>
    /\ UNCHANGED <<dirs, cwd, mkCall>>
    /\ UNCHANGED <<walkVars, dlVars, parseVars, faulty>>

\* the for-loop takes the next tuple of os.walk and computes target_directory
upload_tuple ==
    /\ upc = "for"
    /\ pending # <<>>
    /\ LET t == Head(pending)
       IN  /\ usource' = t[1]
           /\ unamesd' = t[2]
           /\ unamesf' = t[3]
           /\ utarget' =
                 join(ServerRoot,
                      LStripSlash(SubSeq(t[1], Len(LocalRoot) + 1, Len(t[1]))))
           /\ visited' = Append(visited, t[1])
    /\ pending' = Tail(pending)
    /\ uk' = 1
    /\ upc' = "dirs"
    /\ UNCHANGED <<utree, utree0, ufiles, rstored, uautomkdir, uraised, sent>>
    /\ UNCHANGED <<dirs, cwd, mkCall>>
    /\ UNCHANGED <<walkVars, dlVars, parseVars, faulty>>

\* for name in dirs: self.mkdir(name) makes the remote directory
upload_mkdir ==
    /\ upc = "dirs"
    /\ uk <= Len(unamesd)
    /\ LET n == join(utarget, unamesd[uk])
       IN  /\ MkdOk(n)
           /\ dirs' = dirs \cup {Resolve(n)}
           /\ sent' = Append(sent, <<"MKD", n>>)
    /\ uk' = uk + 1
    /\ UNCHANGED <<utree, utree0, ufiles, rstored, uautomkdir, upc, pending, usource,
                   unamesd, unamesf, utarget, uraised, visited>>
    /\ UNCHANGED <<cwd, mkCall>>
    /\ UNCHANGED <<walkVars, dlVars, parseVars, faulty>>

\* for name in dirs: self.mkdir(name) raises ftplib.Error, which is passed over
upload_mkdir_refused ==
    /\ upc = "dirs"
    /\ uk <= Len(unamesd)
    /\ LET n == join(utarget, unamesd[uk])
       IN  /\ ~MkdOk(n)
           /\ sent' = Append(sent, <<"MKD", n>>)
    /\ uk' = uk + 1
    /\ UNCHANGED <<utree, utree0, ufiles, rstored, uautomkdir, upc, pending, usource,
                   unamesd, unamesf, utarget, uraised, visited>>
    /\ UNCHANGED <<dirs, cwd, mkCall>>
    /\ UNCHANGED <<walkVars, dlVars, parseVars, faulty>>

\* the loop over dirs has ended
upload_dirs_done ==
    /\ upc = "dirs"
    /\ uk > Len(unamesd)
    /\ uk' = 1
    /\ upc' = "files"
    /\ UNCHANGED <<utree, utree0, ufiles, rstored, uautomkdir, pending, usource, unamesd,
                   unamesf, utarget, uraised, sent, visited>>
    /\ UNCHANGED <<dirs, cwd, mkCall>>
    /\ UNCHANGED <<walkVars, dlVars, parseVars, faulty>>

\* the server takes a STOR when the file's directory exists
StorOk(filename) ==
    /\ dirname(Norm(filename)) \in dirs
    /\ Norm(filename) \notin dirs
    /\ Norm(filename) \notin faulty

\* for name in files: get_file_proxy(target_name).filename_upload(source_name)
\* opens the local file for reading and stores it on the server
filename_upload ==
    /\ upc = "files"
    /\ uk <= Len(unamesf)
    /\ LET target_name == join(utarget, unamesf[uk])
           source_name == join(usource, unamesf[uk])
           filename    == join(cwd, target_name)
       IN  /\ Norm(source_name) \in DOMAIN ufiles
           /\ StorOk(filename)
           /\ rstored' = [q \in DOMAIN rstored \cup {Norm(filename)} |->
                             IF q = Norm(filename) THEN ufiles[Norm(source_name)]
                             ELSE rstored[q]]
           /\ sent' = Append(sent, <<"STOR", filename>>)
    /\ uk' = uk + 1
    /\ UNCHANGED <<utree, utree0, ufiles, uautomkdir, upc, pending, usource, unamesd,
                   unamesf, utarget, uraised, visited>>
    /\ UNCHANGED <<dirs, cwd, mkCall>>
    /\ UNCHANGED <<walkVars, dlVars, parseVars, faulty>>

\* for name in files: the STOR raises and nothing in upload_directory
\* handles the error
filename_upload_failed ==
    /\ upc = "files"
    /\ uk <= Len(unamesf)
    /\ LET target_name == join(utarget, unamesf[uk])
           filename    == join(cwd, target_name)
       IN  /\ ~StorOk(filename)
           /\ sent' = Append(sent, <<"STOR", filename>>)
    /\ uraised' = "error_perm"
    /\ upc' = "done"
    /\ UNCHANGED <<utree, utree0, ufiles, rstored, uautomkdir, pending, usource, unamesd,
                   unamesf, utarget, uk, visited>>
    /\ UNCHANGED <<dirs, cwd, mkCall>>
    /\ UNCHANGED <<walkVars, dlVars, parseVars, faulty>>

\* the loop over files has ended: the for-loop asks os.walk for the next tuple
upload_files_done ==
    /\ upc = "files"
    /\ uk > Len(unamesf)
    /\ upc' = "for"
    /\ UNCHANGED <<utree, utree0, ufiles, rstored, uautomkdir, pending, usource, unamesd,
                   unamesf, utarget, uk, uraised, sent, visited>>
    /\ UNCHANGED <<dirs, cwd, mkCall>>
    /\ UNCHANGED <<walkVars, dlVars, parseVars, faulty>>

\* os.walk is exhausted: upload_directory returns
upload_return ==
    /\ upc = "for"
    /\ pending = <<>>
    /\ upc' = "done"
    /\ UNCHANGED <<utree, utree0, ufiles, rstored, uautomkdir, pending, usource, unamesd,
                   unamesf, utarget, uk, uraised, sent, visited>>
    /\ UNCHANGED <<dirs, cwd, mkCall>>
    /\ UNCHANGED <<walkVars, dlVars, parseVars, faulty>>

UpNext ==
    \/ upload_directory
    \/ upload_tuple
    \/ upload_mkdir
    \/ upload_mkdir_refused
    \/ upload_dirs_done
    \/ filename_upload
    \/ filename_upload_failed
    \/ upload_files_done
    \/ upload_return

(***************************************************************************)
(* A single call parse_dir_listing(line, **kwargs) by any caller.          *)
(***************************************************************************)
\* most whitespace-separated fields of a listing line
MaxFields == 11

BucketNames == {"dirs", "files", "links", "pipes", "sockets", "devices"}

\* mode strings: each recognized type character, two unrecognized ones, and
\* one that has a recognized character after the first
Modes ==
    {<<c, "r", "w">> : c \in {"d", "-", "l", "p", "s", "c", "b", "?", "D"}}
    \cup {<<"?", "d", "r">>}

\* the fields after the eighth: m fields, the last of them n
NameFields(m, n) == [i \in 1..m |-> IF i = m THEN n ELSE Field("w")]

\* the fields of a line of m + 8 fields
LineOf(mode, m, n) ==
    <<mode, Field("1"), Field("u"), Field("g"), Field("0"), Field("Jan"),
      Field("1"), Field("0:00")>> \o NameFields(m, n)

ParseInit ==
    /\ \E mode \in Modes, m \in 0..(MaxFields - 8), n \in {Str("f"), Str("g")} :
          pline = LineOf(mode, m, n)
    /\ requested \in SUBSET BucketNames
    /\ \E prior \in {<<>>, <<Str("e")>>} : lists = [b \in BucketNames |-> prior]
    /\ lists0 = lists
    /\ perror = ""
    /\ ppc = "idle"

\* parse_dir_listing(line, **kwargs) is called and returns or raises
parse_call ==
    /\ ppc = "idle"
    /\ LET r == parse_dir_listing(pline, lists)
       IN  /\ lists' = r.buckets
           /\ perror' = r.error
    /\ ppc' = "done"
    /\ UNCHANGED <<pline, requested, lists0>>
    /\ UNCHANGED <<mkVars, walkVars, dlVars, upVars, faulty>>

ParseNext == parse_call

(***************************************************************************)
(* Specifications: one per operation of the library.                       *)
(***************************************************************************)
vars == <<mkVars, walkVars, dlVars, upVars, parseVars, faulty>>

\* the variables of makedirs while FTP.walk runs
MkIdle ==
    /\ dirs = {Root}
    /\ target = Root
    /\ cwd = Root
    /\ pc = "idle"
    /\ saved = Empty
    /\ rarg = Empty
    /\ rstack = <<>>
    /\ name = Empty
    /\ remaining = <<>>
    /\ directory = Empty
    /\ idx = 0
    /\ attempts = <<>>
    /\ calls = 0
    /\ raised = FALSE
    /\ dirs0 = dirs
    /\ cwd0 = cwd
    /\ dirs1 = {}
    /\ cwd1 = Empty
    /\ moved = FALSE
    /\ grew = FALSE

\* the variables of walk while FTP.makedirs runs
WalkIdle ==
    /\ tree = {Root}
    /\ rfiles = <<>>
    /\ special = [d \in tree |-> "ok"]
    /\ llinks = {}
    /\ wroot = Root
    /\ topdown = TRUE
    /\ onerror = FALSE
    /\ followlinks = FALSE
    /\ consumer = "nobody"
    /\ wpc = "idle"
    /\ stack = <<>>
    /\ yielded = <<>>
    /\ errors = <<>>
    /\ wraised = ""
    /\ defaults = [links |-> <<>>, pipes |-> <<>>, sockets |-> <<>>, devices |-> <<>>]

\* the variables of download_directory while another operation runs
DlIdle ==
    /\ automkdir = TRUE
    /\ ldirs = {Root}
    /\ lfiles = <<>>
    /\ dpc = "idle"
    /\ source_directory = Empty
    /\ sdirs = <<>>
    /\ sfiles = <<>>
    /\ target_directory = Empty
    /\ k = 0
    /\ draised = ""
    /\ ldirs0 = ldirs

\* the variables of upload_directory while another operation runs
UpIdle ==
    /\ utree = {Root}
    /\ utree0 = utree
    /\ ufiles = <<>>
    /\ rstored = <<>>
    /\ uautomkdir = TRUE
    /\ upc = "none"
    /\ pending = <<>>
    /\ usource = Empty
    /\ unamesd = <<>>
    /\ unamesf = <<>>
    /\ utarget = Empty
    /\ uk = 0
    /\ uraised = ""
    /\ sent = <<>>
    /\ visited = <<>>

\* the variables of parse_dir_listing while another operation runs
ParseIdle ==
    /\ pline = <<>>
    /\ requested = {}
    /\ lists = NoBuckets
    /\ lists0 = NoBuckets
    /\ perror = ""
    /\ ppc = "idle"

\* every transfer works
NoFault == faulty = {}

InitMakedirs == MkInit /\ WalkIdle /\ DlIdle /\ UpIdle /\ ParseIdle /\ NoFault

SpecMakedirs == InitMakedirs /\ [][MkNext]_vars

InitWalk == WalkInit /\ MkIdle /\ DlIdle /\ UpIdle /\ ParseIdle /\ NoFault

SpecWalk == InitWalk /\ [][WalkNext]_vars

InitDownload == DlInit /\ MkIdle /\ UpIdle /\ ParseIdle /\ NoFault

InitUpload == UpInit /\ WalkIdle /\ DlIdle /\ ParseIdle

SpecUpload == InitUpload /\ [][UpNext]_vars

\* a download in which the server may fail the transfer of one file; a run
\* has at most one irregularity
InitFaultyDownload ==
    /\ DlInit
    /\ MkIdle
    /\ UpIdle
    /\ ParseIdle
    /\ faulty \in (IF llinks = {} /\ \A d \in tree : special[d] = "ok"
                   THEN OneOrNone(DOMAIN rfiles) ELSE {{}})

\* a download_directory or an upload_directory
InitTransfer == InitFaultyDownload \/ InitUpload

TransferNext == DlNext \/ filename_download_failed \/ UpNext

SpecTransfer == InitTransfer /\ [][TransferNext]_vars

InitLinks == LinkInit /\ MkIdle /\ DlIdle /\ UpIdle /\ ParseIdle /\ NoFault

\* the steps of a topdown walk when no local path is a symbolic link
LinkNext ==
    \/ walk
    \/ walk_dir
    \/ walk_dir_raised
    \/ walk_yield
    \/ walk_recurse
    \/ walk_return

SpecLinks == InitLinks /\ [][LinkNext]_vars

InitParse == ParseInit /\ MkIdle /\ WalkIdle /\ DlIdle /\ UpIdle /\ NoFault

SpecParse == InitParse /\ [][ParseNext]_vars

SpecDownload == InitDownload /\ [][DlNext]_vars

\* a walk by the caller with any arguments, or a download_directory
InitTree == InitWalk \/ InitDownload

TreeNext == DlNext \/ walk_yield_top

SpecTree == InitTree /\ [][TreeNext]_vars

(***************************************************************************)
(* Properties of FTP.makedirs.                                             *)
(***************************************************************************)
\* the path and its ancestors below "/", shallowest first
RECURSIVE PrefixSeq(_)
PrefixSeq(p) == IF dirname(p) = p THEN <<>> ELSE Append(PrefixSeq(dirname(p)), p)

Missing(p) == p \notin dirs0

\* the prefixes of the target that were missing when the call was made
MissingPrefixes == SelectSeq(PrefixSeq(target), Missing)

Returned == pc = "idle" /\ calls >= 1

\* C1: after makedirs(target) returns, the target directory and every one of
\* its ancestors exist on the server (as claimed; the code breaks it)
C1_TargetExists ==
    (Returned /\ target \in PathsUpTo(MaxDepth)) =>
        \A p \in Prefixes(target) : p \in dirs

\* C2: the mkd attempts of makedirs(target) are exactly the missing prefixes
\* of the target, shallowest first (as claimed; the code breaks it)
C2_AttemptsAreMissingPrefixes ==
    (pc = "return" /\ target \in PathsUpTo(MaxDepth)) => attempts = MissingPrefixes

\* C3: once get_remaining_directory has returned, so before the first mkd
\* and after makedirs returns, the current directory is the one the session
\* had when makedirs was called
C3_CwdRestored == pc \in {"ascend", "create", "return", "idle"} => cwd = cwd0

\* C3 witness: a call whose probing changed directory has sent an mkd
C3_Witness == pc = "create" /\ moved /\ attempts # <<>>

\* C4: no error reaches the caller of makedirs, and a second makedirs(target)
\* leaves the directories and the current directory as the first one left them
C4_Idempotent == ~raised /\ (calls = 2 => dirs = dirs1 /\ cwd = cwd1)

\* C4 witness: the second call has returned after a first call that created
\* a directory, and the second call had an mkd refused
C4_Witness == calls = 2 /\ grew /\ attempts # <<>>

(***************************************************************************)
(* Properties of FTP.walk.                                                 *)
(***************************************************************************)
\* the directory of the i-th tuple yielded, as the server names it
YDir(i) == Norm(yielded[i][1])

YDirs == {YDir(i) : i \in 1..Len(yielded)}

\* x is strictly below d
Below(x, d) == x # d /\ d \in Prefixes(x)

\* the remote tree rooted at the directory that is walked
Subtree == {d \in tree : wroot \in Prefixes(d)}

\* the listing of d raises in FTP.dir
Fails(d) == special[d] \in {"refused", "bad"}

\* the names of the immediate subdirectories of d, in listing order
ChildNames(d) == SelectSeq([i \in 1..Len(NameSeq) |-> Str(NameSeq[i])],
                           LAMBDA n : join(d, n) \in tree)

\* the names of the files of d
FileNames(d) == IF join(d, FileName) \in DOMAIN rfiles THEN <<FileName>> ELSE <<>>

\* the walk asks for the listing of d: d is the root, or its parent was
\* listed and d was not passed over as a link
RECURSIVE Tried(_)
Tried(d) ==
    \/ d = wroot
    \/ /\ Below(d, wroot)
       /\ Tried(dirname(d))
       /\ ~Fails(dirname(d))
       /\ followlinks \/ d \notin llinks

TriedDirs == {d \in Subtree : Tried(d)}

\* C5: in a topdown walk every directory is yielded strictly before each of
\* its descendants: when a tuple is yielded, the tuples of all its ancestors
\* up to the root of the walk have been yielded, and none of a descendant
C5_PreOrder ==
    topdown =>
        \A j \in 1..Len(yielded) :
            /\ \A i \in 1..Len(yielded) : Below(YDir(j), YDir(i)) => i < j
            /\ \A a \in Subtree : Below(YDir(j), a) => \E i \in 1..(j-1) : YDir(i) = a

\* C5 witness: a finished topdown walk has yielded a directory, a child of
\* it and a grandchild of it
C5_Witness ==
    /\ topdown
    /\ wpc = "done"
    /\ \E h, i, j \in 1..Len(yielded) :
          /\ YDir(i) # YDir(h) /\ dirname(YDir(i)) = YDir(h)
          /\ YDir(j) # YDir(i) /\ dirname(YDir(j)) = YDir(i)

\* C6: a walk with topdown=False ends without error and has yielded every
\* directory strictly after its descendants (as claimed; the code breaks it)
C6_PostOrder ==
    (~topdown /\ wpc = "done") =>
        /\ wraised = ""
        /\ YDirs = {d \in TriedDirs : ~Fails(d)}
        /\ \A i, j \in 1..Len(yielded) : Below(YDir(j), YDir(i)) => j < i

\* C7: when every listing succeeds, walk(root) has yielded exactly one tuple
\* per directory of the tree rooted at root, with the directory's path, its
\* subdirectory names and its file names (as claimed; the code breaks it)
C7_OneTuplePerDirectory ==
    (wpc = "done" /\ topdown /\ ~followlinks /\ \A d \in Subtree : ~Fails(d)) =>
        /\ Len(yielded) = Cardinality(Subtree)
        /\ YDirs = Subtree
        /\ \A i \in 1..Len(yielded) :
              /\ yielded[i][2] = ChildNames(YDir(i))
              /\ yielded[i][3] = FileNames(YDir(i))

\* C8: when a listing has failed during a walk, no error has reached the
\* caller, onerror (if given) was called once per failed listing, and the
\* tuples yielded are those of the directories the walk reaches without
\* passing through a failed one (as claimed; the code breaks it)
C8_FailureEndsSubtreeOnly ==
    (wpc = "done" /\ \E d \in TriedDirs : Fails(d)) =>
        /\ wraised = ""
        /\ onerror => /\ Len(errors) = Cardinality({d \in TriedDirs : Fails(d)})
                      /\ {Norm(errors[i][2]) : i \in 1..Len(errors)}
                            = {d \in TriedDirs : Fails(d)}
        /\ ~onerror => errors = <<>>
        /\ YDirs = {d \in TriedDirs : ~Fails(d)}
        /\ Len(yielded) = Cardinality(YDirs)

(***************************************************************************)
(* Properties of FTP.download_directory.                                   *)
(***************************************************************************)
\* the directories whose listing a walk that runs to its end asks for and gets
\* a malformed line in
MalformedMet == {d \in TriedDirs : special[d] = "bad"}

\* C9 as claimed: a malformed line met during download_directory reaches the
\* caller of download_directory as an error (the code does not do this)
C9_MalformedLineAbortsDownload ==
    (dpc = "done" /\ wpc = "done" /\ MalformedMet # {}) => draised = "ValueError"

\* C9 as amended: FTP.dir raises the ValueError of a malformed line, but walk
\* catches it: it never reaches the consumer of the walk nor the caller of
\* download_directory, no tuple is yielded for that directory or below it,
\* onerror (if given) has got it once when the walk has ended, and a topdown
\* walk or a download that ends without error has yielded every other
\* directory it could reach
C9_MalformedLineCaughtByWalk ==
    /\ \A d \in tree : special[d] = "bad" => dir(d).error = "ValueError"
    /\ wraised # "ValueError"
    /\ draised # "ValueError"
    /\ \A d \in MalformedMet : \A y \in YDirs : d \notin Prefixes(y)
    /\ (wpc = "done" /\ wraised = "" /\ onerror) =>
          \A d \in MalformedMet :
              Cardinality({i \in 1..Len(errors) : Norm(errors[i][2]) = d}) = 1
              /\ \E i \in 1..Len(errors) : errors[i] = <<"ValueError", d>>
    /\ (wpc = "done" /\ wraised = "" /\ draised = "") =>
          YDirs = {d \in TriedDirs : ~Fails(d)}

\* C9 witness: a download has ended without error although a directory below
\* the root had a malformed line, and it went on to a later directory
C9_Witness ==
    /\ consumer = "download_directory"
    /\ dpc = "done"
    /\ draised = ""
    /\ \E d \in MalformedMet :
          /\ d # wroot
          /\ \E i \in 1..Len(yielded) : YDir(i) \notin Prefixes(d)

\* the local path that mirrors the remote path q of the tree that is walked
Mirror(q) == Norm(LocalRoot \o Root \o SubSeq(q, Len(wroot) + 1, Len(q)))

\* C10: after download_directory(remoteRoot, localRoot) on a localRoot that
\* did not exist, with no failing listing, every remote file of the tree is a
\* local file with the same content and every remote subdirectory is a local
\* directory (as claimed; the code breaks it)
C10_DownloadMirrorsTree ==
    (/\ dpc = "done"
     /\ automkdir
     /\ LocalRoot \notin ldirs0
     /\ \A d \in Subtree : ~Fails(d)) =>
        /\ draised = ""
        /\ \A d \in Subtree : Mirror(d) \in ldirs
        /\ \A q \in DOMAIN rfiles :
              dirname(q) \in Subtree =>
                  /\ Mirror(q) \in DOMAIN lfiles
                  /\ lfiles[Mirror(q)] = rfiles[q]

(***************************************************************************)
(* Properties of FTP.upload_directory.                                     *)
(***************************************************************************)
\* the remote path that mirrors the local path q of the tree that is uploaded
UMirror(q) == Norm(ServerRoot \o Root \o SubSeq(q, Len(LocalRoot) + 1, Len(q)))

\* the positions in `sent` of the STOR commands
Stores == {i \in 1..Len(sent) : sent[i][1] = "STOR"}

\* upload_directory has returned after one STOR per local file, each to the
\* mirrored remote path, and the server holds every local file
UploadComplete ==
    /\ uraised = ""
    /\ Cardinality(Stores) = Cardinality(DOMAIN ufiles)
    /\ \A q \in DOMAIN ufiles :
          /\ Cardinality({i \in Stores : Norm(sent[i][2]) = UMirror(q)}) = 1
          /\ UMirror(q) \in DOMAIN rstored
          /\ rstored[UMirror(q)] = ufiles[q]

\* C11: upload_directory(localRoot, remoteRoot) with automkdir=True on an
\* existing local tree and an existing remote root, with no failing transfer,
\* returns after exactly one STOR per local file, to remoteRoot/p, and the
\* server holds every local file (as claimed; the code breaks it)
C11_UploadStoresEveryFile ==
    (/\ upc = "done"
     /\ uautomkdir
     /\ LocalRoot \in utree0
     /\ ServerRoot \in dirs0
     /\ faulty = {}) => UploadComplete

(***************************************************************************)
(* Properties of both transfers.                                           *)
(***************************************************************************)
\* C12: in download_directory and in upload_directory, the destination of
\* the directory the loop body works on, of each of its subdirectories and of
\* each of its files is destinationRoot/p, where sourceRoot/p is the source
\* path (p empty for the root itself)
C12_PathMapping ==
    /\ dpc \in {"dirs", "files"} =>
          /\ Norm(target_directory) = Mirror(source_directory)
          /\ \A i \in 1..Len(sdirs) :
                Norm(join(target_directory, sdirs[i]))
                    = Mirror(join(source_directory, sdirs[i]))
          /\ \A i \in 1..Len(sfiles) :
                Norm(join(target_directory, sfiles[i]))
                    = Mirror(join(source_directory, sfiles[i]))
    /\ upc \in {"dirs", "files"} =>
          /\ Norm(utarget) = UMirror(usource)
          /\ \A i \in 1..Len(unamesd) :
                Norm(join(utarget, unamesd[i])) = UMirror(join(usource, unamesd[i]))
          /\ \A i \in 1..Len(unamesf) :
                Norm(join(utarget, unamesf[i])) = UMirror(join(usource, unamesf[i]))
    /\ \A q \in DOMAIN lfiles :
          \E r \in DOMAIN rfiles : dirname(r) \in Subtree /\ q = Mirror(r)
    /\ \A q \in DOMAIN rstored : \E r \in DOMAIN ufiles : q = UMirror(r)

\* C12 witness: a download from a source root other than "/" has written a
\* file two levels below the destination root
C12_Witness ==
    /\ wroot # Root
    /\ \E q \in DOMAIN lfiles :
          /\ dirname(dirname(q)) = LocalRoot
          /\ lfiles[q] = rfiles[wroot \o SubSeq(q, Len(LocalRoot) + 1, Len(q))]

\* a transfer of download_directory or of upload_directory has failed
TransferFailed == draised = "error_perm" \/ uraised = "error_perm"

\* the transfer of a file that the server fails was started
FaultyTried ==
    \/ \E q \in faulty : dirname(q) \in Subtree /\ Mirror(q) \in DOMAIN lfiles
    \/ \E i \in Stores : Norm(sent[i][2]) \in faulty

\* C13: a failing single-file transfer ends download_directory or
\* upload_directory with the error at its caller; after the failing step
\* nothing more is listed, created or transferred; and no step, the failing
\* one included, removes a directory or a file made before
C13_TransferFailureAborts ==
    /\ [](/\ FaultyTried => TransferFailed
          /\ draised = "error_perm" => dpc = "done"
          /\ uraised = "error_perm" =>
                upc = "done" /\ sent # <<>> /\ sent[Len(sent)][1] = "STOR")
    /\ [][/\ TransferFailed => UNCHANGED vars
          /\ ldirs \subseteq ldirs'
          /\ dirs \subseteq dirs'
          /\ \A q \in DOMAIN lfiles :
                q \in DOMAIN lfiles' /\ (lfiles[q] # <<>> => lfiles'[q] = lfiles[q])
          /\ \A q \in DOMAIN rstored :
                q \in DOMAIN rstored' /\ rstored'[q] = rstored[q]]_vars

\* C13 witness: a download has ended with the error of a failed transfer,
\* after it wrote another file and made a directory, and with directories of
\* the walk still to come
C13_Witness ==
    /\ draised = "error_perm"
    /\ \E q \in DOMAIN lfiles : lfiles[q] # <<>>
    /\ ldirs # ldirs0
    /\ stack # <<>>

(***************************************************************************)
(* Properties of parse_dir_listing.                                        *)
(***************************************************************************)
\* the mode string starts with a recognized type character
Recognized(mode) == mode[1] \in {"d", "-", "l", "p", "s", "c", "b"}

\* the list that belongs to a recognized type character
Class(c) ==
    CASE c = "d" -> "dirs"
      [] c = "-" -> "files"
      [] c = "l" -> "links"
      [] c = "p" -> "pipes"
      [] c = "s" -> "sockets"
      [] c \in {"c", "b"} -> "devices"

\* C14: for a 9-field line whose mode starts with a recognized character and
\* any set of requested lists, parse_dir_listing raises nothing, appends the
\* name to the requested list of the character's class if that list was
\* requested, and leaves every other requested list as it was
C14_OneRequestedBucket ==
    (ppc = "done" /\ Len(pline) = 9 /\ Recognized(pline[1])) =>
        /\ perror = ""
        /\ \A b \in requested :
              lists[b] = IF b = Class(pline[1][1]) THEN Append(lists0[b], pline[9])
                         ELSE lists0[b]
        /\ Cardinality({b \in requested : lists[b] # lists0[b]}) <= 1

\* C14 witness: a call with several lists requested has appended the name of
\* a 9-field line to the requested list of its class
C14_Witness ==
    /\ ppc = "done"
    /\ Len(pline) = 9
    /\ Recognized(pline[1])
    /\ Cardinality(requested) >= 2
    /\ Class(pline[1][1]) \in requested
    /\ lists[Class(pline[1][1])] # lists0[Class(pline[1][1])]

\* C15: a line with a recognized type character and 9 or more fields is
\* taken, with its last field as the name, and a line with fewer than 9
\* fields is rejected (as claimed; the code breaks it)
C15_LastFieldIsName ==
    (ppc = "done" /\ Recognized(pline[1])) =>
        IF Len(pline) >= 9
        THEN /\ perror = ""
             /\ lists[Class(pline[1][1])]
                    = Append(lists0[Class(pline[1][1])], pline[Len(pline)])
        ELSE perror = "ValueError"

(***************************************************************************)
(* Properties of FTP.walk on symbolic links.                               *)
(***************************************************************************)
\* the directories of the walked tree that hold the symbolic link
LinkHolders == {h \in Subtree : special[h] \in {"link", "barelink"}}

\* a tuple was yielded for the path p or for a path below it
WalkedInto(p) == \E i \in 1..Len(yielded) : Norm(p) \in Prefixes(YDir(i))

\* without followlinks the walk does not go into a symbolic link
LinksNotFollowed ==
    (wpc = "done" /\ ~followlinks) =>
        \A h \in LinkHolders : ~WalkedInto(join(h, LinkName))

\* C16: when the walk has ended, a symbolic link to a directory was walked
\* into if followlinks holds and was not if it does not (as claimed; the
\* code breaks the first part)
C16_FollowlinksDecides ==
    /\ LinksNotFollowed
    /\ (wpc = "done" /\ followlinks) =>
          \A h \in LinkHolders : WalkedInto(join(h, LinkName))

(***************************************************************************)
(* Order of the commands of FTP.upload_directory.                          *)
(***************************************************************************)
\* an MKD for the remote directory p is among the first n commands sent
MkdWithin(n, p) ==
    \E j \in 1..n : sent[j][1] = "MKD" /\ Norm(sent[j][2]) = Norm(p)

\* the visited local directories whose own directory loop has ended
DirsLoopDone ==
    {visited[n] : n \in {m \in 1..Len(visited) :
                            m < Len(visited) \/ upc \in {"files", "for", "done"}}}

\* the creation attempts for the directories in V come before their files
CreatedBeforeFiles(V) ==
    /\ \A v \in V : MkdWithin(Len(sent), UMirror(v))
    /\ \A i \in Stores :
          (\E v \in V : UMirror(v) = dirname(Norm(sent[i][2]))) =>
              MkdWithin(i - 1, dirname(Norm(sent[i][2])))

\* C17: in upload_directory an MKD for the remote directory of every local
\* directory visited, the local root included, is sent before any STOR into
\* it, and no error but that of a failed STOR ends the upload once the walk
\* has started (as claimed; the code breaks it)
C17_MkdirBeforeFiles ==
    /\ CreatedBeforeFiles(DirsLoopDone)
    /\ visited # <<>> => uraised \in {"", "error_perm"}
    /\ uraised = "error_perm" => sent[Len(sent)][1] = "STOR"

(***************************************************************************)
(* Properties of FTP.get_remaining_directory and of the mkd commands of    *)
(* FTP.makedirs.                                                           *)
(***************************************************************************)
\* the deepest ancestor of p (or p itself) that existed when the call was made
DeepestExisting(p) ==
    CHOOSE a \in Prefixes(p) \cap dirs0 :
        \A b \in Prefixes(p) \cap dirs0 : Len(b) <= Len(a)

\* C18: for an absolute path, get_remaining_directory has returned the empty
\* string when the path exists, and otherwise the missing segments joined by
\* slashes: a relative path without a trailing slash that leads from the
\* deepest existing ancestor to the path
C18_RemainingIsMissingSuffix ==
    (pc \in {"ascend", "create", "return"} /\ StartsWithSlash(target)) =>
        /\ ~EndsWithSlash(name)
        /\ ~StartsWithSlash(name)
        /\ Norm(target) \in dirs0 => name = Empty
        /\ Norm(target) \notin dirs0 =>
              /\ name # Empty
              /\ join(DeepestExisting(Norm(target)), name) = Norm(target)

\* C18 witness: get_remaining_directory has returned two missing segments
\* below an existing directory other than "/", for a path with a trailing slash
C18_Witness ==
    /\ pc = "ascend"
    /\ StartsWithSlash(target)
    /\ EndsWithSlash(target)
    /\ DeepestExisting(Norm(target)) # Root
    /\ \E i \in 1..Len(name) : name[i] = "/"

\* C19: every mkd that makedirs(target) sends names the target or one of its
\* ancestors, and so does every directory it creates (as claimed; the code
\* breaks it)
C19_OnlyPrefixesAttempted ==
    target \in PathsUpTo(MaxDepth) =>
        /\ \A i \in 1..Len(attempts) : Resolve(attempts[i]) \in Prefixes(target)
        /\ \A d \in dirs \ dirs0 : d \in Prefixes(target)

(***************************************************************************)
(* Order of the local creations of FTP.download_directory.                 *)
(***************************************************************************)
\* C20: in download_directory with automkdir=True, whenever a local file is
\* about to be opened for writing, and whenever a local subdirectory is about
\* to be made, its parent directory exists: no open and no os.mkdir fails for
\* a missing directory, and every file written lies in a local directory
C20_ParentExistsAtOpen ==
    automkdir =>
        /\ (dpc = "files" /\ k <= Len(sfiles)) =>
              ParentIsDir(join(target_directory, sfiles[k]))
        /\ (dpc = "dirs" /\ k <= Len(sdirs)) =>
              ParentIsDir(join(target_directory, sdirs[k]))
        /\ draised # "FileNotFoundError"
        /\ \A q \in DOMAIN lfiles : dirname(q) \in ldirs

\* C20 witness: a download with automkdir=True has written a file into a
\* directory two levels below the local root, both made by this download
C20_Witness ==
    /\ automkdir
    /\ \E q \in DOMAIN lfiles :
          /\ dirname(q) \notin ldirs0
          /\ dirname(dirname(q)) \notin ldirs0
          /\ dirname(dirname(dirname(q))) = LocalRoot
          /\ lfiles[q] # <<>>

====
